---- MODULE Spec2Model ----
(* Model of scripts/mysql_backup.py: the tier decision of do_backup, the     *)
(* create -> upload -> rotate -> save chain of one app, and the config file  *)
(* that holds every app's last_year / last_month / last_week / last_day.     *)
EXTENDS Integers, Sequences, FiniteSets

(* ------------------------------------------------------------------------ *)
(* Bounds                                                                    *)
(* ------------------------------------------------------------------------ *)
NumApps == 2          \* apps in the config file
MaxRuns == 2          \* invocations of do_backup
MaxDayOffset == 4     \* the clock reads FirstDate .. FirstDate + MaxDayOffset

Apps == 1..NumApps

(* ------------------------------------------------------------------------ *)
(* Calendar: datetime.datetime.now() and its year, month, isocalendar()[1],  *)
(* day                                                                       *)
(* ------------------------------------------------------------------------ *)
FirstDate == [year |-> 2024, month |-> 12, day |-> 28]

IsLeap(y) == (y % 4 = 0) /\ ((y % 100 # 0) \/ (y % 400 = 0))

DaysInMonth(y, m) ==
    IF m = 2 THEN (IF IsLeap(y) THEN 29 ELSE 28)
    ELSE IF m \in {4, 6, 9, 11} THEN 30 ELSE 31

RECURSIVE DaysBeforeMonth(_, _)
DaysBeforeMonth(y, m) ==
    IF m = 1 THEN 0 ELSE DaysBeforeMonth(y, m - 1) + DaysInMonth(y, m - 1)

DaysBeforeYear(y) ==
    (y - 1) * 365 + ((y - 1) \div 4) - ((y - 1) \div 100) + ((y - 1) \div 400)

ymd2ord(y, m, d) == DaysBeforeYear(y) + DaysBeforeMonth(y, m) + d

isoweek1monday(y) ==
    LET firstday == ymd2ord(y, 1, 1)
        firstweekday == (firstday + 6) % 7
        week1monday == firstday - firstweekday
    IN  IF firstweekday > 3 THEN week1monday + 7 ELSE week1monday

\* now.isocalendar()[1]
isoweek(y, m, d) ==
    LET today == ymd2ord(y, m, d)
        week == (today - isoweek1monday(y)) \div 7
    IN  IF week < 0
        THEN ((today - isoweek1monday(y - 1)) \div 7) + 1
        ELSE IF week >= 52 /\ today >= isoweek1monday(y + 1)
             THEN 1
             ELSE week + 1

NextDay(dt) ==
    IF dt.day < DaysInMonth(dt.year, dt.month)
    THEN [dt EXCEPT !.day = dt.day + 1]
    ELSE IF dt.month < 12
         THEN [year |-> dt.year, month |-> dt.month + 1, day |-> 1]
         ELSE [year |-> dt.year + 1, month |-> 1, day |-> 1]

RECURSIVE DateAt(_)
DateAt(k) == IF k = 0 THEN FirstDate ELSE NextDay(DateAt(k - 1))

\* current_year, current_month, current_week, current_day of one invocation
CurrentUnits(dt) ==
    [year |-> dt.year, month |-> dt.month,
     week |-> isoweek(dt.year, dt.month, dt.day), day |-> dt.day]

NowValues == {CurrentUnits(DateAt(k)) : k \in 0..MaxDayOffset}

NoNow == [year |-> 0, month |-> 0, week |-> 0, day |-> 0]

(* ------------------------------------------------------------------------ *)
(* app['bk'] as the config file may hold it, values above the clock's units  *)
(* included                                                                  *)
(* ------------------------------------------------------------------------ *)
Bk(y, m, w, d) ==
    [last_year |-> y, last_month |-> m, last_week |-> w, last_day |-> d]

StoredBk ==
    { Bk(2023, 11, 48, 27),     \* everything older than the clock
      Bk(2024, 11, 52, 30),     \* month older, day above the clock's
      Bk(2024, 12, 51, 28),     \* week older
      Bk(2024, 12, 52, 28),     \* the units of FirstDate
      Bk(2025, 12, 53, 31) }    \* everything above the clock

Tiers == <<"yearly", "monthly", "weekly", "daily">>


(* ------------------------------------------------------------------------ *)
(* The tier decision of do_backup                                            *)
(* ------------------------------------------------------------------------ *)
\* variant: the daily comparison is not strict
tier_due_day_not_strict(t, nw, bk) ==
    CASE t = "yearly"  -> nw.year  > bk.last_year
      [] t = "monthly" -> nw.month > bk.last_month
      [] t = "weekly"  -> nw.week  > bk.last_week
      [] t = "daily"   -> nw.day  >= bk.last_day

\* the condition of one branch of the chain, taken alone
tier_due(t, nw, bk) ==
    CASE t = "yearly"  -> nw.year  > bk.last_year
      [] t = "monthly" -> nw.month > bk.last_month
      [] t = "weekly"  -> nw.week  > bk.last_week
      [] t = "daily"   -> nw.day   > bk.last_day

\* variant: every branch is an independent `if`
branches_all_if(nw, bk) == SelectSeq(Tiers, LAMBDA t : tier_due(t, nw, bk))

\* the branch bodies one pass of the if / elif chain executes, in order
branches(nw, bk) ==
    LET due == {i \in 1..Len(Tiers) : tier_due(Tiers[i], nw, bk)}
    IN  IF due = {} THEN << >>
        ELSE << Tiers[CHOOSE i \in due : \A j \in due : i <= j] >>

\* variant: the yearly branch stores the year only
advance_year_only(t, nw, bk) ==
    CASE t = "yearly"  -> [bk EXCEPT !.last_year = nw.year]
      [] t = "monthly" -> [bk EXCEPT !.last_month = nw.month,
                                     !.last_week = nw.week,
                                     !.last_day = nw.day]
      [] t = "weekly"  -> [bk EXCEPT !.last_week = nw.week,
                                     !.last_day = nw.day]
      [] t = "daily"   -> [bk EXCEPT !.last_day = nw.day]

\* variant: the weekly branch forgets last_day
advance_week_only(t, nw, bk) ==
    CASE t = "yearly"  -> [bk EXCEPT !.last_year = nw.year,
                                     !.last_month = nw.month,
                                     !.last_week = nw.week,
                                     !.last_day = nw.day]
      [] t = "monthly" -> [bk EXCEPT !.last_month = nw.month,
                                     !.last_week = nw.week,
                                     !.last_day = nw.day]
      [] t = "weekly"  -> [bk EXCEPT !.last_week = nw.week]
      [] t = "daily"   -> [bk EXCEPT !.last_day = nw.day]

\* variant: the monthly branch also stores the year
advance_month_sets_year(t, nw, bk) ==
    CASE t = "yearly"  -> [bk EXCEPT !.last_year = nw.year,
                                     !.last_month = nw.month,
                                     !.last_week = nw.week,
                                     !.last_day = nw.day]
      [] t = "monthly" -> [bk EXCEPT !.last_year = nw.year,
                                     !.last_month = nw.month,
                                     !.last_week = nw.week,
                                     !.last_day = nw.day]
      [] t = "weekly"  -> [bk EXCEPT !.last_week = nw.week,
                                     !.last_day = nw.day]
      [] t = "daily"   -> [bk EXCEPT !.last_day = nw.day]

\* variant: the daily branch stores the week number in last_day
advance_day_from_week(t, nw, bk) ==
    CASE t = "yearly"  -> [bk EXCEPT !.last_year = nw.year,
                                     !.last_month = nw.month,
                                     !.last_week = nw.week,
                                     !.last_day = nw.day]
      [] t = "monthly" -> [bk EXCEPT !.last_month = nw.month,
                                     !.last_week = nw.week,
                                     !.last_day = nw.day]
      [] t = "weekly"  -> [bk EXCEPT !.last_week = nw.week,
                                     !.last_day = nw.day]
      [] t = "daily"   -> [bk EXCEPT !.last_day = nw.week]

\* the assignments of the branch of tier t, run when backup_created is true
advance(t, nw, bk) ==
    CASE t = "yearly"  -> [bk EXCEPT !.last_year = nw.year,
                                     !.last_month = nw.month,
                                     !.last_week = nw.week,
                                     !.last_day = nw.day]
      [] t = "monthly" -> [bk EXCEPT !.last_month = nw.month,
                                     !.last_week = nw.week,
                                     !.last_day = nw.day]
      [] t = "weekly"  -> [bk EXCEPT !.last_week = nw.week,
                                     !.last_day = nw.day]
      [] t = "daily"   -> [bk EXCEPT !.last_day = nw.day]

\* variant: the timestamps are assigned whatever create_full_backup returned
bk_after_always(created, t, nw, bk) == advance(t, nw, bk)

\* app['bk'] after `if backup_created:` of the branch of tier t
bk_after(created, t, nw, bk) == IF created THEN advance(t, nw, bk) ELSE bk

\* variant: rotate is set whatever create_full_backup returned
rotate_flag_always(rot, created) == TRUE

\* the local `rotate` after the branch
rotate_flag(rot, created) == rot \/ created

\* variant: the value returned is the result of the dump alone
create_result_no_upload(cmd_result, uploaded) == cmd_result

\* the value create_full_backup returns: upload_backup's result when the
\* dump and gzip commands succeeded, a false value (False or None) otherwise
create_result(cmd_result, uploaded) == IF cmd_result THEN uploaded ELSE FALSE

\* variant: the file is saved before the rotation
chain_exit_save_first(rot) == IF rot THEN "save_open" ELSE "next"

\* where do_backup goes after the chain: `if rotate:` ... `else:`
chain_exit(rot) == IF rot THEN "rot_local" ELSE "next"

\* variant: the list as it was read is dumped
dump_content_stale(c, l) == l

\* what json.dump(cfg, f) writes: the whole in-memory list
dump_content(c, l) == c

(* ------------------------------------------------------------------------ *)
(* Backup files and their rotation                                           *)
(* ------------------------------------------------------------------------ *)
\* app['rotate']['local'] and app['rotate']['remote']: keep-count per tier;
\* a tier absent from a scheme is not rotated
Scheme ==
    [local  |-> [daily |-> 3, weekly |-> 1, monthly |-> 1],
     remote |-> [daily |-> 1, weekly |-> 1, monthly |-> 1, yearly |-> 1]]

\* app['rotate']['dry_run']: the last app of the list only reports
dry_run(a) == a = NumApps

\* variant: both rotations are given the local scheme
rotation_scheme_local_twice(rotate_type) == Scheme.local

\* rotation_scheme=app['rotate']['local'] / app['rotate']['remote']
rotation_scheme(rotate_type) == Scheme[rotate_type]

\* the file app_name_YYYY-MM-DD_HH-MM_type.gz: the stamp orders files by
\* date, and within a date by invocation
Artifact(a, nw, r, t) ==
    [app |-> a,
     stamp |-> (IF nw = NoNow THEN 0 ELSE ymd2ord(nw.year, nw.month, nw.day))
               * (MaxRuns + 1) + r,
     tier |-> t]

\* the artifacts of app a and tier t in a namespace
Matching(ns, a, t) == {x \in ns : x.app = a /\ x.tier = t}

\* the k artifacts of S with the newest stamps
Newest(S, k) == {x \in S : Cardinality({y \in S : y.stamp > x.stamp}) < k}

\* what a rotation of app a's artifacts under a scheme marks for deletion
ToDelete(ns, a, scheme) ==
    UNION { Matching(ns, a, t) \ Newest(Matching(ns, a, t), scheme[t])
            : t \in DOMAIN scheme }

\* the namespace after the rotation; `failing` are the deletions that fail
Rotate(ns, a, scheme, dry, failing) ==
    IF dry THEN ns ELSE ns \ (ToDelete(ns, a, scheme) \ failing)

\* the deletions that may fail in one rotation: none, or the one of the
\* oldest file marked
FailChoices(S) ==
    {{}} \cup {{x} : x \in {y \in S : \A z \in S : y.stamp <= z.stamp}}

\* five daily files of the first app, older than every clock value
OldDaily == {[app |-> 1, stamp |-> k, tier |-> "daily"] : k \in 1..5}

(* ------------------------------------------------------------------------ *)
(* State                                                                     *)
(* ------------------------------------------------------------------------ *)
VARIABLES
    file,       \* CONFIG_FILE: [ok, apps]; ok is FALSE while the file opened
                \* with 'w' holds no complete JSON list
    cfg,        \* the list read_config returned, mutated in place by do_backup
    now,        \* current_year, current_month, current_week, current_day
    pc,         \* position of the process
    idx,        \* index of `app` in `for app in cfg`
    todo,       \* branch bodies of the chain still to execute for `app`
    rotate,     \* the local `rotate`
    run,        \* invocations started so far
    loaded,     \* history: the bk values read at the start of this invocation
    trace,      \* history: per app, what this invocation did for it
    attempted,  \* history: per app, the tiers handed to create_full_backup
    succ,       \* history: per app, clock and invocation of its last save
    at,         \* history: the position at which the process ended abnormally
    owed,       \* history: the apps whose creation failed in the invocation
                \* before this one
    store,      \* the artifacts in local_backup_dir and remote_backup_dir,
                \* and per app the deletions that failed in its last rotation
    other       \* the process-local state of a second invocation of the
                \* script, when one overlaps with this one

vars == <<file, cfg, now, pc, idx, todo, rotate, run, loaded, trace,
          attempted, succ, at, owed, store, other>>

Truncated == [ok |-> FALSE, apps |-> << >>]

Stopped == {"idle", "done", "aborted", "crashed", "load_failed"}
BackupSteps == {"create", "upload", "rot_local", "rot_remote"}
Running == {"eval", "save_open", "save_dump"} \cup BackupSteps

NoSucc == [now |-> NoNow, run |-> 0]

NoStore == [local |-> {}, remote |-> {}, errors |-> [a \in Apps |-> {}]]

\* a process that has not started: nothing read, nothing done
NotStarted ==
    [cfg |-> << >>, now |-> NoNow, pc |-> "idle", idx |-> 1, todo |-> << >>,
     rotate |-> FALSE, loaded |-> << >>,
     trace |-> [a \in Apps |-> << >>],
     attempted |-> [a \in Apps |-> << >>],
     at |-> "none"]

Init ==
    /\ file \in {[ok |-> TRUE, apps |-> a] : a \in [Apps -> {[bk |-> b] : b \in StoredBk}]}
    /\ owed = {}
    /\ store = NoStore
    /\ other = NotStarted
    /\ cfg = file.apps
    /\ loaded = file.apps
    /\ now = NoNow
    /\ pc = "idle"
    /\ idx = 1
    /\ todo = << >>
    /\ rotate = FALSE
    /\ run = 0
    /\ trace = [a \in Apps |-> << >>]
    /\ attempted = [a \in Apps |-> << >>]
    /\ succ = [a \in Apps |-> NoSucc]
    /\ at = "none"

Log(a, e) == trace' = [trace EXCEPT ![a] = Append(@, e)]

\* the apps for which the dump or gzip command failed in the invocation
\* that `trace` describes
CreationFailed ==
    {a \in Apps : \E i \in 1..Len(trace[a]) :
                     trace[a][i] \in {"create_fail", "create_raise"}}

(* ------------------------------------------------------------------------ *)
(* do_backup, one action per step                                            *)
(* ------------------------------------------------------------------------ *)
\* cfg = read_config(); now = datetime.datetime.now(), the clock reading n
ReadConfig(n) ==
    /\ pc \in Stopped
    /\ run < MaxRuns
    /\ file.ok
    /\ now' = n
    /\ cfg' = file.apps
    /\ loaded' = file.apps
    /\ run' = run + 1
    /\ idx' = 1
    /\ pc' = "eval"
    /\ todo' = << >>
    /\ rotate' = FALSE
    /\ trace' = [a \in Apps |-> << >>]
    /\ attempted' = [a \in Apps |-> << >>]
    /\ at' = "none"
    /\ UNCHANGED <<file, succ, store, other>>

\* json.load raises on a file that holds no complete list: the run ends
ReadConfigFails ==
    /\ pc \in Stopped
    /\ run < MaxRuns
    /\ ~file.ok
    /\ run' = run + 1
    /\ pc' = "load_failed"
    /\ at' = "read_config"
    /\ trace' = [a \in Apps |-> << >>]
    /\ attempted' = [a \in Apps |-> << >>]
    /\ UNCHANGED <<file, cfg, now, idx, todo, rotate, loaded, succ, store, other>>

\* an invocation starts, whatever the clock reads
read_config ==
    /\ \E n \in NowValues : ReadConfig(n)
    /\ UNCHANGED owed

read_config_fails ==
    /\ ReadConfigFails
    /\ UNCHANGED owed

\* the end of the loop body: the next app, or the end of the loop
NextApp ==
    /\ pc' = IF idx < Len(cfg) THEN "eval" ELSE "done"
    /\ idx' = idx + 1
    /\ todo' = << >>

\* an exception nothing catches ends the process
Abort ==
    /\ pc' = "aborted"
    /\ at' = pc
    /\ UNCHANGED <<idx, todo>>

\* `rotate = False` and the conditions of the chain for `app`
decide ==
    /\ pc = "eval"
    /\ LET b == branches(now, cfg[idx].bk)
       IN  IF b = << >>
           THEN /\ Log(idx, "not_due")
                /\ NextApp
           ELSE /\ todo' = b
                /\ pc' = "create"
                /\ UNCHANGED <<idx, trace>>
    /\ rotate' = FALSE
    /\ UNCHANGED <<file, cfg, now, run, loaded, attempted, succ, at, owed,
                   store, other>>

\* from the return of create_full_backup to the end of the chain
AfterBranch(created) ==
    /\ cfg' = [cfg EXCEPT ![idx].bk = bk_after(created, Head(todo), now, @)]
    /\ rotate' = rotate_flag(rotate, created)
    /\ IF Tail(todo) # << >>
       THEN /\ todo' = Tail(todo)
            /\ pc' = "create"
            /\ idx' = idx
       ELSE IF chain_exit(rotate_flag(rotate, created)) = "next"
            THEN NextApp
            ELSE /\ pc' = chain_exit(rotate_flag(rotate, created))
                 /\ UNCHANGED <<idx, todo>>

\* create_full_backup up to the result of the mysqldump and gzip commands
CreateFullBackup ==
    /\ pc = "create"
    /\ attempted' = [attempted EXCEPT ![idx] = Append(@, Head(todo))]
    /\ \E res \in {"ok", "failed", "raised"} :
         CASE res = "ok" ->
                /\ Log(idx, "create_ok")
                /\ pc' = "upload"
                /\ UNCHANGED <<cfg, rotate, idx, todo, at>>
           [] res = "failed" ->
                \* ExternalCommandFailed is caught: None is returned
                /\ Log(idx, "create_fail")
                /\ AfterBranch(create_result(FALSE, FALSE))
                /\ UNCHANGED at
           [] res = "raised" ->
                \* any other exception (os.makedirs) leaves do_backup
                /\ Log(idx, "create_raise")
                /\ Abort
                /\ UNCHANGED <<cfg, rotate>>
    /\ UNCHANGED <<file, now, run, loaded, succ, owed, other>>

\* the step, the content of the directories not followed
create_full_backup ==
    /\ CreateFullBackup
    /\ UNCHANGED store

\* the step and its file: gzip writes backup_file into local_backup_dir; a
\* failing gzip leaves its partial output behind, a failing mysqldump none
create_full_backup_files ==
    /\ CreateFullBackup
    /\ LET e == trace'[idx][Len(trace'[idx])]
           put == [store EXCEPT !.local =
                     @ \cup {Artifact(idx, now, run, Head(todo))}]
       IN  CASE e = "create_ok"   -> store' = put
             [] e = "create_fail" -> store' \in {store, put}
             [] OTHER             -> store' = store

\* upload_backup and the return of its result through create_full_backup
UploadBackup ==
    /\ pc = "upload"
    /\ \E res \in BOOLEAN :
         /\ Log(idx, IF res THEN "upload_ok" ELSE "upload_fail")
         /\ AfterBranch(create_result(TRUE, res))
    /\ UNCHANGED <<file, now, run, loaded, attempted, succ, at, owed, other>>

upload_backup ==
    /\ UploadBackup
    /\ UNCHANGED store

\* the step and its file: upload_file puts backup_file into remote_backup_dir
upload_backup_files ==
    /\ UploadBackup
    /\ store' = IF trace'[idx][Len(trace'[idx])] = "upload_ok"
                THEN [store EXCEPT !.remote =
                        @ \cup {Artifact(idx, now, run, Head(todo))}]
                ELSE store

\* rotate_backups: RotateBackupsCM(... 'local').rotate_backups(local_backup_dir)
RotateBackupsLocal ==
    /\ pc = "rot_local"
    /\ \/ /\ Log(idx, "rot_local")
          /\ pc' = "rot_remote"
          /\ UNCHANGED <<idx, todo, at>>
       \/ /\ Log(idx, "rot_local_raise")
          /\ Abort
    /\ UNCHANGED <<file, cfg, now, rotate, run, loaded, attempted, succ, owed,
                   other>>

rotate_backups_local ==
    /\ RotateBackupsLocal
    /\ UNCHANGED store

\* the call and its deletions in local_backup_dir
rotate_backups_local_files ==
    /\ RotateBackupsLocal
    /\ IF pc' = "rot_remote"
       THEN \E failing \in FailChoices(ToDelete(store.local, idx,
                                                rotation_scheme("local"))) :
              store' = [store EXCEPT
                          !.local = Rotate(@, idx, rotation_scheme("local"),
                                           dry_run(idx), failing),
                          !.errors[idx] = IF dry_run(idx) THEN {} ELSE failing]
       ELSE store' = store

\* rotate_backups: RotateBackupsCM(... 'remote').rotate_backups(remote_backup_dir)
RotateBackupsRemote ==
    /\ pc = "rot_remote"
    /\ \/ /\ Log(idx, "rot_remote")
          /\ pc' = "save_open"
          /\ UNCHANGED <<idx, todo, at>>
       \/ /\ Log(idx, "rot_remote_raise")
          /\ Abort
    /\ UNCHANGED <<file, cfg, now, rotate, run, loaded, attempted, succ, owed,
                   other>>

rotate_backups_remote ==
    /\ RotateBackupsRemote
    /\ UNCHANGED store

\* the call and its deletions in remote_backup_dir
rotate_backups_remote_files ==
    /\ RotateBackupsRemote
    /\ IF pc' = "save_open"
       THEN \E failing \in FailChoices(ToDelete(store.remote, idx,
                                                rotation_scheme("remote"))) :
              store' = [store EXCEPT
                          !.remote = Rotate(@, idx, rotation_scheme("remote"),
                                            dry_run(idx), failing),
                          !.errors[idx] = IF dry_run(idx) THEN @
                                          ELSE @ \cup failing]
       ELSE store' = store

\* save_last_backup_datetime: open(CONFIG_FILE, 'w') empties the file
save_open ==
    /\ pc = "save_open"
    /\ \/ /\ Log(idx, "save_open")
          /\ file' = Truncated
          /\ pc' = "save_dump"
          /\ UNCHANGED <<idx, todo, at>>
       \/ /\ Log(idx, "save_raise")
          /\ Abort
          /\ UNCHANGED file
    /\ UNCHANGED <<cfg, now, rotate, run, loaded, attempted, succ, owed, store,
                   other>>

\* save_last_backup_datetime: json.dump(cfg, f) and the close of the file
save_dump ==
    /\ pc = "save_dump"
    /\ \/ /\ Log(idx, "save_done")
          /\ file' = [ok |-> TRUE, apps |-> dump_content(cfg, loaded)]
          /\ succ' = [succ EXCEPT ![idx] = [now |-> now, run |-> run]]
          /\ NextApp
          /\ UNCHANGED at
       \/ /\ Log(idx, "save_raise")
          /\ Abort
          /\ UNCHANGED <<file, succ>>
    /\ UNCHANGED <<cfg, now, rotate, run, loaded, attempted, owed, store,
                   other>>

\* the process is killed (or the machine stops) in the middle of a run
crash ==
    /\ pc \in Running
    /\ pc' = "crashed"
    /\ at' = pc
    /\ UNCHANGED <<file, cfg, now, idx, todo, rotate, run, loaded, trace,
                   attempted, succ, owed, store, other>>

Next ==
    \/ read_config
    \/ read_config_fails
    \/ decide
    \/ create_full_backup
    \/ upload_backup
    \/ rotate_backups_local
    \/ rotate_backups_remote
    \/ save_open
    \/ save_dump
    \/ crash

Spec == Init /\ [][Next]_vars

(* ------------------------------------------------------------------------ *)
(* The script run by a scheduler whose clock never goes back, on a file     *)
(* whose bk values are the units of each app's last successful backup date   *)
(* ------------------------------------------------------------------------ *)
DateOrd(n) == IF n = NoNow THEN 0 ELSE ymd2ord(n.year, n.month, n.day)

\* the Monday of the ISO week of n
IsoWeekStart(n) == DateOrd(n) - ((DateOrd(n) + 6) % 7)

UnitsBk(n) == Bk(n.year, n.month, n.week, n.day)

\* dates of a last successful backup: the clock's window and two before it
EarlierDates ==
    { [year |-> 2024, month |-> 11, day |-> 30],
      [year |-> 2024, month |-> 12, day |-> 20] }

LastDates == NowValues \cup {CurrentUnits(d) : d \in EarlierDates}

InitMono ==
    /\ \E last \in [Apps -> LastDates] :
          /\ file = [ok |-> TRUE,
                     apps |-> [a \in Apps |-> [bk |-> UnitsBk(last[a])]]]
          /\ succ = [a \in Apps |-> [now |-> last[a], run |-> 0]]
    /\ owed = {}
    /\ store = NoStore
    /\ other = NotStarted
    /\ cfg = file.apps
    /\ loaded = file.apps
    /\ now = NoNow
    /\ pc = "idle"
    /\ idx = 1
    /\ todo = << >>
    /\ rotate = FALSE
    /\ run = 0
    /\ trace = [a \in Apps |-> << >>]
    /\ attempted = [a \in Apps |-> << >>]
    /\ at = "none"

\* an invocation starts at a time not before the previous invocation and not
\* before any app's last successful backup
read_config_mono ==
    /\ \E n \in NowValues :
          /\ DateOrd(now) <= DateOrd(n)
          /\ \A a \in Apps : DateOrd(succ[a].now) <= DateOrd(n)
          /\ ReadConfig(n)
    /\ owed' = CreationFailed

read_config_fails_mono ==
    /\ ReadConfigFails
    /\ owed' = CreationFailed

NextMono ==
    \/ read_config_mono
    \/ read_config_fails_mono
    \/ decide
    \/ create_full_backup
    \/ upload_backup
    \/ rotate_backups_local
    \/ rotate_backups_remote
    \/ save_open
    \/ save_dump
    \/ crash

SpecMono == InitMono /\ [][NextMono]_vars

(* ------------------------------------------------------------------------ *)
(* The script with the content of its two backup directories followed       *)
(* ------------------------------------------------------------------------ *)
\* stored values that make the first invocation yearly, or daily or yearly;
\* every app of the file holds the same one
RotStoredBk == { Bk(2023, 11, 48, 27), Bk(2024, 12, 52, 28) }

InitRot ==
    /\ file \in {[ok |-> TRUE, apps |-> [a \in Apps |-> [bk |-> b]]] :
                   b \in RotStoredBk}
    /\ store = [NoStore EXCEPT !.local = OldDaily]
    /\ owed = {}
    /\ other = NotStarted
    /\ cfg = file.apps
    /\ loaded = file.apps
    /\ now = NoNow
    /\ pc = "idle"
    /\ idx = 1
    /\ todo = << >>
    /\ rotate = FALSE
    /\ run = 0
    /\ trace = [a \in Apps |-> << >>]
    /\ attempted = [a \in Apps |-> << >>]
    /\ succ = [a \in Apps |-> NoSucc]
    /\ at = "none"

NextRot ==
    \/ read_config_mono
    \/ read_config_fails_mono
    \/ decide
    \/ create_full_backup_files
    \/ upload_backup_files
    \/ rotate_backups_local_files
    \/ rotate_backups_remote_files
    \/ save_open
    \/ save_dump
    \/ crash

SpecRot == InitRot /\ [][NextRot]_vars

(* ------------------------------------------------------------------------ *)
(* Two invocations of the script overlapping on the same CONFIG_FILE,        *)
(* neither of them killed                                                    *)
(* ------------------------------------------------------------------------ *)
\* the file of the overlapping invocations: every app last backed up on the
\* day before the clock's window
ConcStoredBk == Bk(2024, 12, 52, 27)

InitConc ==
    /\ file = [ok |-> TRUE, apps |-> [a \in Apps |-> [bk |-> ConcStoredBk]]]
    /\ owed = {}
    /\ store = NoStore
    /\ other = NotStarted
    /\ cfg = file.apps
    /\ loaded = file.apps
    /\ now = NoNow
    /\ pc = "idle"
    /\ idx = 1
    /\ todo = << >>
    /\ rotate = FALSE
    /\ run = 0
    /\ trace = [a \in Apps |-> << >>]
    /\ attempted = [a \in Apps |-> << >>]
    /\ succ = [a \in Apps |-> NoSucc]
    /\ at = "none"

\* the scheduler lets the other invocation take its next steps: do_backup
\* takes no lock and tests for no running instance, so this can happen
\* between any two steps. The locals of the two processes change places;
\* the file, the directories and the histories of the file are shared.
switch ==
    /\ other' = [cfg |-> cfg, now |-> now, pc |-> pc, idx |-> idx,
                 todo |-> todo, rotate |-> rotate, loaded |-> loaded,
                 trace |-> trace, attempted |-> attempted, at |-> at]
    /\ cfg' = other.cfg
    /\ now' = other.now
    /\ pc' = other.pc
    /\ idx' = other.idx
    /\ todo' = other.todo
    /\ rotate' = other.rotate
    /\ loaded' = other.loaded
    /\ trace' = other.trace
    /\ attempted' = other.attempted
    /\ at' = other.at
    /\ UNCHANGED <<file, run, succ, owed, store>>

\* json.dump and the close of a file in which the other invocation's text
\* landed after this invocation's open(CONFIG_FILE, 'w'): this text is
\* written from offset 0 over it, and when it is the shorter one the tail of
\* the other text stays behind it, so the file holds no complete list
save_dump_short ==
    /\ pc = "save_dump"
    /\ file.ok
    /\ Log(idx, "save_short")
    /\ file' = Truncated
    /\ NextApp
    /\ UNCHANGED <<cfg, now, rotate, run, loaded, attempted, succ, at, owed,
                   store, other>>

NextConc ==
    \/ read_config
    \/ read_config_fails
    \/ decide
    \/ create_full_backup
    \/ upload_backup
    \/ rotate_backups_local
    \/ rotate_backups_remote
    \/ save_open
    \/ save_dump
    \/ save_dump_short
    \/ switch

SpecConc == InitConc /\ [][NextConc]_vars

(* ------------------------------------------------------------------------ *)
(* Vocabulary of the properties                                              *)
(* ------------------------------------------------------------------------ *)
Has(a, e) == \E i \in 1..Len(trace[a]) : trace[a][i] = e

Evaluated(a) == trace[a] # << >>

YearDue(a)  == now.year  > loaded[a].bk.last_year
MonthDue(a) == now.month > loaded[a].bk.last_month
WeekDue(a)  == now.week  > loaded[a].bk.last_week
DayDue(a)   == now.day   > loaded[a].bk.last_day
NoneDue(a)  == ~YearDue(a) /\ ~MonthDue(a) /\ ~WeekDue(a) /\ ~DayDue(a)

\* t is the highest-priority tier whose own condition holds for app a
HighestDue(a, t) ==
    /\ t = "yearly"  => YearDue(a)
    /\ t = "monthly" => MonthDue(a) /\ ~YearDue(a)
    /\ t = "weekly"  => WeekDue(a) /\ ~YearDue(a) /\ ~MonthDue(a)
    /\ t = "daily"   => DayDue(a) /\ ~YearDue(a) /\ ~MonthDue(a) /\ ~WeekDue(a)

\* the fields of tier t and of every tier below it hold the clock's units
SetToNow(b, t) ==
    /\ t = "yearly" => b.last_year = now.year
    /\ t \in {"yearly", "monthly"} => b.last_month = now.month
    /\ t \in {"yearly", "monthly", "weekly"} => b.last_week = now.week
    /\ b.last_day = now.day

\* b is the whole update of old by a backup of tier t, and nothing else
WholeUpdate(b, old, t) ==
    /\ SetToNow(b, t)
    /\ t # "yearly" => b.last_year = old.last_year
    /\ t \notin {"yearly", "monthly"} => b.last_month = old.last_month
    /\ t = "daily" => b.last_week = old.last_week

FullCycle == <<"create_ok", "upload_ok", "rot_local", "rot_remote">>

RanFullCycle(a) ==
    /\ Len(trace[a]) >= 4
    /\ SubSeq(trace[a], 1, 4) = FullCycle

Untouched(a) ==
    /\ cfg[a] = loaded[a]
    /\ file.ok => file.apps[a] = loaded[a]

(* ------------------------------------------------------------------------ *)
(* Properties                                                                *)
(* ------------------------------------------------------------------------ *)

\* C1: in one invocation at most one tier is handed to create_full_backup
\* for an app, and it is the highest-priority tier whose own condition
\* (the clock's unit strictly above the stored one) holds; an app with a
\* true condition is never passed over.
C1_OneHighestTier ==
    \A a \in Apps :
        /\ Len(attempted[a]) <= 1
        /\ \A i \in 1..Len(attempted[a]) : HighestDue(a, attempted[a][i])
        /\ (Evaluated(a) /\ ~NoneDue(a)) => Len(attempted[a]) = 1

C1_Witness ==
    \E a \in Apps :
        /\ YearDue(a) /\ MonthDue(a) /\ WeekDue(a) /\ DayDue(a)
        /\ attempted[a] = <<"yearly">>
        /\ Has(a, "save_done")

\* C2: once create_full_backup has returned true for tier T, the app's
\* fields of T and of every tier below T hold the clock's units, in memory
\* and, once the save has returned, in the file.
C2_TierAndBelowSet ==
    \A a \in Apps :
        Has(a, "upload_ok") =>
            /\ Len(attempted[a]) >= 1
            /\ SetToNow(cfg[a].bk, attempted[a][Len(attempted[a])])
            /\ (Has(a, "save_done") /\ file.ok) =>
                   SetToNow(file.apps[a].bk, attempted[a][Len(attempted[a])])

C2_Witness ==
    \E a \in Apps :
        /\ loaded[a].bk = Bk(2024, 12, 52, 28)
        /\ attempted[a] = <<"yearly">>
        /\ Has(a, "save_done")
        /\ file.ok
        /\ file.apps[a].bk = Bk(2025, 1, 1, 1)

\* C3: an app whose last saved cycle ran under the same clock value as a
\* later invocation is found not due by that invocation: nothing is created,
\* rotated or saved for it.
C3_SecondEvaluationNotDue ==
    \A a \in Apps :
        (succ[a].run # 0 /\ succ[a].run < run /\ succ[a].now = now
           /\ Evaluated(a))
        => /\ trace[a] = <<"not_due">>
           /\ attempted[a] = << >>

C3_Witness ==
    \E a \in Apps :
        /\ succ[a].run # 0 /\ succ[a].run < run /\ succ[a].now = now
        /\ trace[a] = <<"not_due">>

\* C4: when the dump or gzip command fails for an app, the invocation runs
\* no rotation and no save for it, and its bk is unchanged in memory and in
\* the file, whatever other apps save later.
C4_CreationFailureFrame ==
    \A a \in Apps :
        (Has(a, "create_fail") \/ Has(a, "create_raise")) =>
            /\ Len(trace[a]) = 1
            /\ Untouched(a)

C4_Witness ==
    \E a, b \in Apps :
        /\ a < b
        /\ trace[a] = <<"create_fail">>
        /\ Has(b, "save_done")
        /\ file.ok
        /\ file.apps[b] # loaded[b]
        /\ file.apps[a] = loaded[a]

\* C5 as stated: an app whose upload failed still has its rotation invoked
\* and its timestamps saved before the loop moves on.
C5_RotationDespiteUploadFailure ==
    \A a \in Apps :
        (Has(a, "upload_fail") /\ idx > a /\ pc \in {"eval", "done"}) =>
            /\ Has(a, "rot_local") \/ Has(a, "rot_local_raise")
            /\ Has(a, "save_done")

\* C5 amended: an upload failure ends the app's cycle: no rotation, no
\* save, bk unchanged in memory and in the file; a rotation is invoked
\* only after an upload that succeeded.
C5_UploadFailureEndsCycle ==
    \A a \in Apps :
        /\ Has(a, "upload_fail") =>
              /\ trace[a] = <<"create_ok", "upload_fail">>
              /\ Untouched(a)
        /\ (Has(a, "rot_local") \/ Has(a, "rot_local_raise")) =>
              Has(a, "upload_ok")

C5_Witness ==
    \E a \in Apps :
        /\ Has(a, "upload_fail")
        /\ idx > a
        /\ pc \in {"eval", "create", "done"}

\* C6: the file is written for an app only after its creation reported
\* success and the local and then the remote rotation returned; in an
\* invocation that read the file, the file differs from what was read only
\* once some app has reached its save.
C6_SaveAfterCreateAndRotations ==
    /\ \A a \in Apps :
          Has(a, "save_open") =>
              /\ Len(trace[a]) >= 5
              /\ SubSeq(trace[a], 1, 5) = FullCycle \o <<"save_open">>
    /\ (pc # "load_failed" /\ file # [ok |-> TRUE, apps |-> loaded]) =>
          \E a \in Apps : Has(a, "save_open")

C6_Witness ==
    \E a \in Apps :
        /\ trace[a] = FullCycle \o <<"save_open", "save_done">>
        /\ file.ok
        /\ file.apps[a] # loaded[a]

\* C7: in every complete content of the file, each app's bk is either the
\* value read at the start of the invocation or the whole update of a cycle
\* of this invocation whose creation, upload and both rotations returned.
C7_WrittenWholeOrLoaded ==
    file.ok =>
        \A a \in Apps :
            \/ file.apps[a] = loaded[a]
            \/ /\ RanFullCycle(a)
               /\ Len(attempted[a]) = 1
               /\ WholeUpdate(file.apps[a].bk, loaded[a].bk, attempted[a][1])

C7_Witness ==
    \E a, b \in Apps :
        /\ a < b
        /\ Has(a, "create_fail") \/ Has(a, "upload_fail")
        /\ Has(b, "save_done")
        /\ file.ok
        /\ file.apps[a] = loaded[a]
        /\ file.apps[b] # loaded[b]

\* C8: an app for which none of the four strict comparisons holds gets no
\* creation, upload, rotation or save and keeps its bk; an invocation in
\* which no app is due leaves the file as it was read.
C8_NotDueFrame ==
    /\ \A a \in Apps :
          (NoneDue(a) /\ Evaluated(a)) =>
              /\ trace[a] = <<"not_due">>
              /\ attempted[a] = << >>
              /\ Untouched(a)
    /\ (run > 0 /\ \A a \in Apps : NoneDue(a)) =>
          file = [ok |-> TRUE, apps |-> loaded]

C8_Witness ==
    /\ pc = "done"
    /\ \A a \in Apps : NoneDue(a) /\ trace[a] = <<"not_due">>
    /\ file.ok

\* C9 as stated: a run whose configuration was read and that was not killed
\* evaluates every app, whatever one app's cycle met.
C9_EveryAppEvaluated ==
    pc \in {"done", "aborted"} => \A a \in Apps : Evaluated(a)

\* C10: while an app is in its create, upload or rotate step, or the
\* process was killed there, the file holds the whole update of every
\* earlier app whose save returned.
C10_ProgressSurvivesCrash ==
    (pc \in BackupSteps \/ (pc = "crashed" /\ at \in BackupSteps)) =>
        \A j \in Apps :
            (j < idx /\ Has(j, "save_done")) =>
                /\ file.ok
                /\ Len(attempted[j]) = 1
                /\ file.apps[j] # loaded[j]
                /\ WholeUpdate(file.apps[j].bk, loaded[j].bk, attempted[j][1])

C10_Witness ==
    /\ pc = "crashed"
    /\ at \in BackupSteps
    /\ \E j \in Apps :
          /\ j < idx
          /\ Has(j, "save_done")
          /\ file.ok
          /\ file.apps[j] # loaded[j]

\* C11 as stated: the file always holds a complete list of app profiles,
\* the previous one or the new one, also in the middle of a save.
C11_FileAlwaysComplete ==
    /\ file.ok
    /\ Len(file.apps) = NumApps
    /\ pc \in {"save_open", "save_dump"} =>
          (file.apps = loaded \/ file.apps = cfg)

\* C12 as stated: an app whose stored last_year is above the clock's year
\* gets no backup of any tier and keeps every timestamp.
C12_YearRollbackRejected ==
    \A a \in Apps :
        (Evaluated(a) /\ now.year < loaded[a].bk.last_year) =>
            /\ attempted[a] = << >>
            /\ cfg[a] = loaded[a]

\* C15: in an invocation that read the file, a successful backup of tier T
\* leaves the fields of every tier above T as they were read, in memory and
\* in the file, and an app's bk differs from what was read only after its
\* own create_full_backup returned true.
C15_HigherTiersAndOtherAppsKept ==
    pc # "load_failed" =>
    \A a \in Apps :
        /\ ~Has(a, "upload_ok") => cfg[a] = loaded[a]
        /\ \A i \in 1..Len(attempted[a]) :
              LET t == attempted[a][i] IN
              /\ t # "yearly" => cfg[a].bk.last_year = loaded[a].bk.last_year
              /\ t \in {"weekly", "daily"} =>
                    cfg[a].bk.last_month = loaded[a].bk.last_month
              /\ t = "daily" => cfg[a].bk.last_week = loaded[a].bk.last_week
        /\ file.ok =>
              /\ file.apps[a].bk.last_year \in
                    {loaded[a].bk.last_year, cfg[a].bk.last_year}
              /\ file.apps[a].bk.last_month \in
                    {loaded[a].bk.last_month, cfg[a].bk.last_month}
              /\ file.apps[a].bk.last_week \in
                    {loaded[a].bk.last_week, cfg[a].bk.last_week}

C15_Witness ==
    \E a, b \in Apps :
        /\ a # b
        /\ attempted[a] = <<"monthly">>
        /\ Has(a, "save_done")
        /\ now.year # loaded[a].bk.last_year
        /\ file.ok
        /\ file.apps[a].bk.last_year = loaded[a].bk.last_year
        /\ file.apps[a].bk.last_month = now.month
        /\ attempted[b] = <<"daily">>
        /\ Has(b, "save_done")
        /\ now.week # loaded[b].bk.last_week
        /\ file.apps[b].bk.last_week = loaded[b].bk.last_week

\* C13 as stated: an app whose creation failed in one invocation has a
\* backup attempted in the next invocation, once that invocation has ended
\* without being killed.
C13_RetriedAtNextInvocation ==
    pc \in {"done", "aborted", "load_failed"} =>
        \A a \in owed : Len(attempted[a]) >= 1

\* C17: with a clock that never goes back and bk values that are the units
\* of the last successful backup date, an invocation that evaluates an app
\* at a date after that date hands some tier to create_full_backup.
C17_NoDaySkipped ==
    \A a \in Apps :
        (Evaluated(a) /\ succ[a].run < run
           /\ DateOrd(succ[a].now) < DateOrd(now))
        => Len(attempted[a]) >= 1

C17_Witness ==
    \E a \in Apps :
        /\ succ[a].run >= 1 /\ succ[a].run < run
        /\ DateOrd(succ[a].now) < DateOrd(now)
        /\ attempted[a] = <<"daily">>
        /\ Has(a, "upload_ok")

\* C18 as stated: an invocation in a later ISO week than the last
\* successful backup date, whose creation and upload succeed, runs a backup
\* of tier weekly or higher.
C18_NoWeekSkipped ==
    \A a \in Apps :
        (Has(a, "upload_ok") /\ succ[a].run < run
           /\ IsoWeekStart(succ[a].now) < IsoWeekStart(now))
        => /\ Len(attempted[a]) >= 1
           /\ attempted[a][1] \in {"weekly", "monthly", "yearly"}

\* after the rotation of a namespace returned for app a in this invocation,
\* not in dry-run mode and with no failed deletion, every tier of the
\* namespace's scheme holds at most its keep-count of a's files
RetentionBound ==
    \A a \in Apps :
        (~dry_run(a) /\ store.errors[a] = {}) =>
            /\ Has(a, "rot_local") =>
                  \A t \in DOMAIN Scheme.local :
                      Cardinality(Matching(store.local, a, t)) <= Scheme.local[t]
            /\ Has(a, "rot_remote") =>
                  \A t \in DOMAIN Scheme.remote :
                      Cardinality(Matching(store.remote, a, t)) <= Scheme.remote[t]

\* a step that removes files from a namespace removes files of the app being
\* rotated, of a tier of the scheme; when no deletion failed, each is older
\* than every file of its app and tier that stays, and exactly the keep-count
\* of them stay
OldestRemoved(before, after, scheme) ==
    \A y \in before \ after :
        /\ y.app = idx
        /\ y.tier \in DOMAIN scheme
        /\ store'.errors[idx] = {} =>
              /\ \A x \in Matching(after, y.app, y.tier) : x.stamp > y.stamp
              /\ Cardinality(Matching(after, y.app, y.tier)) = scheme[y.tier]

OtherSaved(a) ==
    /\ other.pc # "idle"
    /\ \E i \in 1..Len(other.trace[a]) : other.trace[a][i] = "save_done"
    /\ other.cfg[a].bk # other.loaded[a].bk

\* C16: two overlapping invocations are not serialised. Each reads the whole
\* list once, when it starts, and each save writes the whole list as the
\* saving invocation holds it: its own snapshot for every app it did not
\* back up itself. (The witness is the lost update: the advance one
\* invocation saved for an app is replaced by the older value in the later
\* save of the other.)
C16_SaveWritesOwnSnapshot ==
    [][/\ (other' = other /\ loaded' # loaded) =>
              (pc \in Stopped /\ file.ok /\ loaded' = file.apps)
       /\ (file' # file /\ file'.ok) =>
              /\ other' = other
              /\ file'.apps = cfg
              /\ \A a \in Apps :
                    ~Has(a, "upload_ok") => file'.apps[a] = loaded[a]]_vars

C16_Witness ==
    \E a \in Apps :
        /\ OtherSaved(a)
        /\ pc \in Running \cup {"done"}
        /\ \E b \in Apps : Has(b, "save_done")
        /\ file.ok
        /\ file.apps = cfg
        /\ file.apps[a].bk = loaded[a].bk
        /\ loaded[a].bk = other.loaded[a].bk
        /\ file.apps[a].bk # other.cfg[a].bk

====
